---- MODULE Spec2Model ----
(***************************************************************************)
(* The USTSA points calculation script (src/points.py) as a state machine. *)
(*                                                                         *)
(* One run of the script is: load last season's archive, read the results  *)
(* table row by row, evaluate season_avg of every racer once (warm-up),    *)
(* sort the roster, write this season's archive, write the report.  The    *)
(* archive written by one run is the archive loaded by the next one.       *)
(*                                                                         *)
(* Representation.                                                         *)
(*  - A Decimal is an integer number of 1/Unit.  The script computes with  *)
(*    64 significant digits (line 21); the model rounds every product and  *)
(*    quotient half-even to 1/Unit, the way the Decimal context rounds to  *)
(*    its precision.                                                       *)
(*  - A Python str that the script parses or prints digit by digit (a time *)
(*    field, an archive value) is a sequence of one-character strings.     *)
(*  - None is the record with tag "None"; a raised exception ends the run  *)
(*    (pc = "aborted"), as an uncaught exception ends the script.          *)
(***************************************************************************)
EXTENDS Integers, Sequences, FiniteSets, TLC

VARIABLES
    year,        \* which run this is (1 = the first modelled season)
    csv,         \* results{year}.csv: [header, rows]
    prevfile,    \* points{year-1}.json as stored: key -> (category name -> str)
    prevseason,  \* the dict of lines 50-57, name -> (RaceType -> Decimal)
    lszeroes,    \* line 58
    zeroes,      \* line 47
    races,       \* the list of Race objects, line 261
    racers,      \* the list of Racer objects, line 19
    j,           \* row counter of the reader loop, line 283
    pc,          \* position of the script
    warmed,      \* roster positions the warm-up loop has visited
    warm_ret,    \* name -> (RaceType -> what best_avg returned in the warm-up),
                 \* kept until the archive is written
    post_ret,    \* name -> (RaceType -> set of values best_avg returned later)
    keys,        \* the keys of the sort of line 316, in list order after it
    seasonobj,   \* name -> (RaceType -> Decimal handed to str()) of line 321
    outfile,     \* points{year}.json as written, key -> (category name -> str)
    last_written, \* seasonobj of the previous run (what that run handed to str)
    racetype     \* loop variable of the category detail loop, line 365

vars == <<year, csv, prevfile, prevseason, lszeroes, zeroes, races, racers, j,
          pc, warmed, warm_ret, post_ret, keys, seasonobj, outfile,
          last_written, racetype>>

-----------------------------------------------------------------------------
(* Bounds of the model *)

NumRacers == 3
MaxSeasons == 2
BigRacers == 12

-----------------------------------------------------------------------------
(* Decimal arithmetic *)

Unit == 1000

Abs(x) == IF x < 0 THEN -x ELSE x
Min(a, b) == IF a < b THEN a ELSE b

\* n/d rounded half-even to an integer, d > 0
Round(n, d) ==
    IF 2 * (n % d) > d THEN (n \div d) + 1
    ELSE IF 2 * (n % d) = d THEN (n \div d) + ((n \div d) % 2)
    ELSE n \div d

DecMul(a, b) == Round(a * b, Unit)
DecDiv(a, b) == Round(a * Unit, b)
DecDivInt(a, n) == Round(a, n)
Dec(units, thousandths) == units * Unit + thousandths

\* the sequence a function on 1..n is (TLC would otherwise leave a function
\* constructor unevaluated and evaluate it again at every application)
AsSeq(f) == f \o <<>>

RECURSIVE SumSeq(_)
SumSeq(s) == IF s = <<>> THEN 0 ELSE Head(s) + SumSeq(Tail(s))

-----------------------------------------------------------------------------
(* str(Decimal) and Decimal(str) *)

Digits == <<"0", "1", "2", "3", "4", "5", "6", "7", "8", "9">>
DigitSet == {"0", "1", "2", "3", "4", "5", "6", "7", "8", "9"}
DigitVal(ch) == (CHOOSE i \in 1..10 : Digits[i] = ch) - 1

RECURSIVE NatStr(_)
NatStr(n) == IF n < 10 THEN <<Digits[n + 1]>>
             ELSE Append(NatStr(n \div 10), Digits[(n % 10) + 1])

RECURSIVE NatOf(_)
NatOf(s) == IF s = <<>> THEN 0
            ELSE 10 * NatOf(SubSeq(s, 1, Len(s) - 1)) + DigitVal(s[Len(s)])

\* the fraction digits of a Decimal, most significant first
FracStr(f) == <<Digits[(f \div 100) + 1], Digits[((f \div 10) % 10) + 1],
                Digits[(f % 10) + 1]>>

\* str(d) without the sign
UnsignedStr(d) == NatStr(Abs(d) \div Unit) \o <<".">> \o FracStr(Abs(d) % Unit)

\* str(d) for a Decimal d: sign, integer digits, point, fraction digits
DecStr(d) ==
    (IF d < 0 THEN <<"-">> ELSE <<>>)
        \o NatStr(Abs(d) \div Unit) \o <<".">> \o FracStr(Abs(d) % Unit)

\* str.find: the first position of ch in s, 0 if there is none
IndexOf(s, ch) == IF \E i \in 1..Len(s) : s[i] = ch
                  THEN CHOOSE i \in 1..Len(s) : s[i] = ch /\ \A k \in 1..(i-1) : s[k] # ch
                  ELSE 0

Unsigned(s) == IF s # <<>> /\ s[1] \in {"-", "+"} THEN Tail(s) ELSE s
IntPart(u) == IF IndexOf(u, ".") = 0 THEN u ELSE SubSeq(u, 1, IndexOf(u, ".") - 1)
FracPart(u) == IF IndexOf(u, ".") = 0 THEN <<>> ELSE SubSeq(u, IndexOf(u, ".") + 1, Len(u))
AllDigits(s) == \A i \in 1..Len(s) : s[i] \in DigitSet

\* the strings Decimal() accepts: [sign] digits [. digits], at least one digit
IsDecimalLiteral(s) ==
    /\ AllDigits(IntPart(Unsigned(s)))
    /\ AllDigits(FracPart(Unsigned(s)))
    /\ Len(IntPart(Unsigned(s))) + Len(FracPart(Unsigned(s))) > 0

Magnitude(u) ==
    NatOf(IntPart(u)) * Unit + NatOf(SubSeq(FracPart(u) \o <<"0", "0", "0">>, 1, 3))

\* Decimal(s) for a literal s (fraction digits past 1/Unit are not carried)
DecimalOf(s) ==
    IF s # <<>> /\ s[1] = "-" THEN -Magnitude(Unsigned(s)) ELSE Magnitude(Unsigned(s))

-----------------------------------------------------------------------------
(* Python values of more than one type *)

NoneV == [tag |-> "None", v |-> 0, s |-> <<>>]
DecV(x) == [tag |-> "Decimal", v |-> x, s |-> <<>>]
StrV(str) == [tag |-> "str", v |-> 0, s |-> str]
Tag(t) == [tag |-> t, v |-> 0, s |-> <<>>]

-----------------------------------------------------------------------------
(* class RaceType, zeroes *)

RaceType == <<"GS", "SC", "CL">>
RaceTypeSet == {"GS", "SC", "CL"}

ffactor(rtype) == IF rtype = "GS" THEN Dec(660, 0) ELSE Dec(500, 0)

InitZeroes == [this \in RaceTypeSet |-> ffactor(this)]

-----------------------------------------------------------------------------
(* Populate prevseason dictionary from last year *)

\* lines 56-57 for one value
Clamp(val, rtype) == IF val > ffactor(rtype) THEN ffactor(rtype) ELSE val

\* lines 54-57 for one key of the file
LoadEntry(entry) ==
    [rtype \in RaceTypeSet |->
        IF rtype \notin DOMAIN entry THEN ffactor(rtype)
        ELSE Clamp(DecimalOf(entry[rtype]), rtype)]

LoadPrevSeasonDict(file) == [rkey \in DOMAIN file |-> LoadEntry(file[rkey])]

-----------------------------------------------------------------------------
(* class Result *)

DNF == "DNF"
DNS == "DNS"
DSQ == "DSQ"
FIN == "FIN"

\* Result.__init__: time is what timeeval returned, xtime is the field _time
NewResult(time, raceid) ==
    IF time.tag \notin {DNF, DNS, DSQ}
    THEN [xtime |-> time, result |-> FIN, race |-> raceid]
    ELSE [xtime |-> NoneV, result |-> time.tag, race |-> raceid]

finished(res) == ~(res.result \in {DNF, DNS, DSQ} \/ res.xtime.tag = "None")

started(res) ==
    ~(res.result = DNS \/ (res.xtime.tag = "None" /\ res.result \notin {DNF, DSQ}))

\* Result.time
ResultTime(res) == IF finished(res) THEN res.xtime ELSE NoneV

\* every (racer position, result position) of the roster, in loop order
RECURSIVE RowPairs(_, _)
RowPairs(k, n) == IF n = 0 THEN <<>> ELSE Append(RowPairs(k, n - 1), <<k, n>>)

RECURSIVE AllPairs(_, _)
AllPairs(rs, n) ==
    IF n = 0 THEN <<>>
    ELSE AllPairs(rs, n - 1) \o RowPairs(n, Len(rs[n].results))

\* the pairs whose result belongs to race ri
InRace(rs, ri) ==
    SelectSeq(AllPairs(rs, Len(rs)), LAMBDA p : rs[p[1]].results[p[2]].race = ri)

ResultAt(rs, p) == rs[p[1]].results[p[2]]

\* the test of line 162 with <= in place of <: a result counts itself and
\* every result of equal time
FasterOrEqual(o, t) == finished(o) /\ ResultTime(o).v <= t

\* the test of line 162 for another result o
Faster(o, t) == finished(o) /\ ResultTime(o).v < t

RECURSIVE CountFaster(_, _, _)
CountFaster(rs, pairs, t) ==
    IF pairs = <<>> THEN 0
    ELSE (IF Faster(ResultAt(rs, Head(pairs)), t) THEN 1 ELSE 0)
             + CountFaster(rs, Tail(pairs), t)

\* Result.place; the value is a plain integer, carried in v
place(rs, res) ==
    IF ~finished(res) THEN NoneV
    ELSE DecV(1 + CountFaster(rs, InRace(rs, res.race), ResultTime(res).v))

\* Result.raw_points, given the race's best_time
raw_points(res, best, rtype) ==
    DecMul(DecDiv(ResultTime(res).v, best) - Unit, ffactor(rtype))

-----------------------------------------------------------------------------
(* list.sort() and sorted(list, key=...) : stable, ascending *)

\* a sequence of <<key, item>> pairs with x put behind every pair whose
\* key is not greater
RECURSIVE InsertByKey(_, _)
InsertByKey(sorted, x) ==
    IF sorted = <<>> THEN <<x>>
    ELSE IF x[1] < Head(sorted)[1] THEN <<x>> \o sorted
    ELSE <<Head(sorted)>> \o InsertByKey(Tail(sorted), x)

RECURSIVE SortByKey(_)
SortByKey(seq) ==
    IF seq = <<>> THEN <<>>
    ELSE InsertByKey(SortByKey(SubSeq(seq, 1, Len(seq) - 1)), seq[Len(seq)])

Firsts(pairs) == AsSeq([i \in 1..Len(pairs) |-> pairs[i][1]])
Seconds(pairs) == AsSeq([i \in 1..Len(pairs) |-> pairs[i][2]])
Keyed(seq) == AsSeq([i \in 1..Len(seq) |-> <<seq[i], 0>>])

SortAsc(seq) == Firsts(SortByKey(Keyed(seq)))

\* seq[:n]
Take(seq, n) == SubSeq(seq, 1, Min(n, Len(seq)))

-----------------------------------------------------------------------------
(* class Racer: ls, last_penalized *)

ls(r, ps) ==
    IF r.name \in DOMAIN ps THEN ps[r.name]
    ELSE [this \in RaceTypeSet |-> ffactor(this)]

last_penalized(r, rtype, ps, lsz) ==
    IF r.inj
    THEN Min(DecMul(Dec(1, 220), ls(r, ps)[rtype]) + DecMul(Dec(0, 220), lsz[rtype]),
             ffactor(rtype))
    ELSE Min(DecMul(Dec(1, 440), ls(r, ps)[rtype]) + DecMul(Dec(0, 440), lsz[rtype]),
             ffactor(rtype))

-----------------------------------------------------------------------------
(* class Race *)

\* Race.__init__
NewRace(rtype, name, penalty) ==
    [rtype |-> rtype, name |-> name, sto_penalty |-> penalty,
     sto_B |-> NoneV, sto_C |-> NoneV, stored_best |-> NoneV]

\* lines 191-192 for one result o
BetterOf(o, best) ==
    IF ResultTime(o).tag # "None" /\ (best.tag = "inf" \/ ResultTime(o).v < best.v)
    THEN ResultTime(o) ELSE best

RECURSIVE ScanBest(_, _, _)
ScanBest(rs, pairs, best) ==
    IF pairs = <<>> THEN best
    ELSE ScanBest(rs, Tail(pairs), BetterOf(ResultAt(rs, Head(pairs)), best))

\* Race.best_time, the value returned
best_time(rs, race, ri) ==
    IF race.stored_best.tag # "None" THEN race.stored_best
    ELSE ScanBest(rs, InRace(rs, ri), Tag("inf"))

\* last season's points, in the race's category, of the racers of the pairs
LsOf(rs, pairs, rtype, ps) ==
    AsSeq([i \in 1..Len(pairs) |-> ls(rs[pairs[i][1]], ps)[rtype]])

\* Race.A
A(rs, race, ri, ps) ==
    SumSeq(Take(SortAsc(LsOf(rs,
        SelectSeq(InRace(rs, ri), LAMBDA p : started(ResultAt(rs, p))),
        race.rtype, ps)), 5))

\* tt_finish without the test "place <= 10" of line 220
AllFinishers(rs, ri) ==
    Firsts(SelectSeq(InRace(rs, ri), LAMBDA p : finished(ResultAt(rs, p))))

\* the list tt_finish of Race.BC, as roster positions
tt_finish(rs, ri) ==
    Firsts(SelectSeq(InRace(rs, ri),
               LAMBDA p : finished(ResultAt(rs, p)) /\ place(rs, ResultAt(rs, p)).v <= 10))

RECURSIVE PairsOfRacers(_, _, _)
PairsOfRacers(rs, tt, ri) ==
    IF tt = <<>> THEN <<>>
    ELSE SelectSeq(RowPairs(Head(tt), Len(rs[Head(tt)].results)),
                   LAMBDA p : ResultAt(rs, p).race = ri)
             \o PairsOfRacers(rs, Tail(tt), ri)

\* <<last season's points, <<racer position, result position>>>>
WithLs(rs, pairs, rtype, ps) ==
    AsSeq([i \in 1..Len(pairs) |-> <<ls(rs[pairs[i][1]], ps)[rtype], pairs[i]>>])

\* the list points_finish of Race.BC after the sort and the cut to five
points_finish(rs, race, ri, ps) ==
    Take(SortByKey(WithLs(rs, PairsOfRacers(rs, tt_finish(rs, ri), ri), race.rtype, ps)), 5)

RawOf(rs, pairs, best, rtype) ==
    AsSeq([i \in 1..Len(pairs) |-> raw_points(ResultAt(rs, pairs[i]), best.v, rtype)])

\* the sums of Race.BC over points_finish pf; best is read only when a
\* raw_points is
SumsBC(rs, race, pf, best) ==
    [B |-> SumSeq(Firsts(pf)),
     C |-> SumSeq(RawOf(rs, Seconds(pf), best, race.rtype)),
     best |-> IF pf = <<>> THEN race.stored_best ELSE best]

\* Race.BC
BC(rs, race, ri, ps) ==
    SumsBC(rs, race, points_finish(rs, race, ri, ps), best_time(rs, race, ri))

\* line 199 and the fields it sets, from A and BC
WithPenalty(race, a, bc) ==
    [race EXCEPT !.sto_penalty = DecV(DecDivInt(a + bc.B - bc.C, 10)),
                 !.sto_B = DecV(bc.B),
                 !.sto_C = DecV(bc.C),
                 !.stored_best = bc.best]

\* the Race object after its penalty property has been read
penalty(rs, race, ri, ps) ==
    IF race.sto_penalty.tag # "None" THEN race
    ELSE WithPenalty(race, A(rs, race, ri, ps), BC(rs, race, ri, ps))

WithBest(race, best) == [race EXCEPT !.stored_best = best]

\* the Race object after the points property of one of its finished results
\* has been read: raw_points (best_time) first, then penalty
AfterPoints(rs, race, ri, ps) ==
    penalty(rs, WithBest(race, best_time(rs, race, ri)), ri, ps)

-----------------------------------------------------------------------------
(* class Racer: best_two, best_avg, season_avg                              *)
(* An evaluation reads and writes zeroes and the Race objects; st carries   *)
(* them through it: zeroes, races, err (an exception was raised), val (the  *)
(* value returned last), seen (every value best_avg returned, by racer name *)
(* and category), row (the last value best_avg returned per category), out  *)
(* (the sort keys computed so far), obj (the dict of line 319).             *)

EmptyMap == [x \in {} |-> 0]

\* the evaluated function (see AsSeq)
AsMap(f) == f @@ EmptyMap

NoSeen(rs) ==
    [n \in {rs[k].name : k \in 1..Len(rs)} |-> [this \in RaceTypeSet |-> {}]]

StartEval(z, rcs, seen) ==
    [zeroes |-> z, races |-> rcs, err |-> FALSE, val |-> 0, seen |-> seen,
     row |-> [this \in RaceTypeSet |-> 0], out |-> <<>>, obj |-> EmptyMap]

\* Result.points of a finished result whose race has been evaluated
points(res, rcs) ==
    raw_points(res, rcs[res.race].stored_best.v, rcs[res.race].rtype)
        + rcs[res.race].sto_penalty.v

\* the results best_two(rtype) collects points of, line 99
Counted(r, rtype, rcs) ==
    SelectSeq(r.results,
              LAMBDA res : ResultTime(res).tag # "None" /\ rcs[res.race].rtype = rtype)

\* Decimal + str in Result.points, line 148
TypeError(r, rtype, rcs) ==
    \E i \in 1..Len(r.results) :
        /\ ResultTime(r.results[i]).tag # "None"
        /\ rcs[r.results[i].race].rtype = rtype
        /\ rcs[r.results[i].race].sto_penalty.tag = "str"

\* the Race objects after best_two of racer r for the categories cats
Touched(rs, r, cats, rcs, ps) ==
    AsSeq([ri \in 1..Len(rcs) |->
        IF \E i \in 1..Len(r.results) :
               /\ r.results[i].race = ri
               /\ ResultTime(r.results[i]).tag # "None"
               /\ rcs[ri].rtype \in cats
        THEN AfterPoints(rs, rcs[ri], ri, ps)
        ELSE rcs[ri]])

PointsOf(cnt, rcs) == AsSeq([i \in 1..Len(cnt) |-> points(cnt[i], rcs)])

Twice(x) == <<x, x>>

\* Racer.best_two, the list returned; rcs are the Race objects after it
best_two(r, rtype, rcs, ps, lsz) ==
    Take(SortAsc(PointsOf(Counted(r, rtype, rcs), rcs)
                     \o Twice(last_penalized(r, rtype, ps, lsz))), 2)

\* line 107
Mean2(templist) == DecDivInt(templist[1] + templist[2], 2)

\* avg of lines 106-107
CatAvg(r, rtype, rcs) == Mean2(best_two(r, rtype, rcs, prevseason, lszeroes))

\* lines 108-109 without the assignment: the zero factor is never lowered
KeptZero(avg, zero) == zero

\* lines 108-109 without the comparison: the zero factor is always assigned
AssignedZero(avg, zero) == avg

\* zeroes[rtype] after lines 108-109
LowerZero(avg, zero) == IF avg < zero THEN avg ELSE zero

\* line 110 returning avg itself
Unadjusted(avg, zero) == avg

\* what line 110 returns, zero being zeroes[rtype] after lines 108-109
Adjusted(avg, zero) == avg - zero

\* lines 108-110 for the categories cats: zeroes lowered, values returned
Returned(st, name, cats, rcs, zero, ret) ==
    [st EXCEPT !.zeroes = zero,
               !.races = rcs,
               !.row = ret,
               !.seen[name] = AsMap([this \in RaceTypeSet |->
                                  IF this \in cats THEN @[this] \cup {ret[this]}
                                  ELSE @[this]])]

Lowered(st, name, cats, rcs, avg, zero) ==
    Returned(st, name, cats, rcs, zero,
             AsMap([this \in RaceTypeSet |->
                       IF this \in cats THEN Adjusted(avg[this], zero[this]) ELSE 0]))

Averaged(st, name, cats, rcs, avg) ==
    Lowered(st, name, cats, rcs, avg,
            AsMap([this \in RaceTypeSet |->
                      IF this \in cats THEN LowerZero(avg[this], st.zeroes[this])
                      ELSE st.zeroes[this]]))

BestAvgOf(st, r, cats, rcs) ==
    Averaged(st, r.name, cats, rcs,
             AsMap([this \in RaceTypeSet |->
                       IF this \in cats THEN CatAvg(r, this, rcs) ELSE 0]))

\* Racer.best_avg(this) of racers[k] for every category this of cats; a
\* category reads and writes its own zero factor and its own races only, so
\* the calls of one racer do not depend on their order
BestAvgs(st, rs, k, cats) ==
    IF st.err \/ \E this \in cats : TypeError(rs[k], this, st.races)
    THEN [st EXCEPT !.err = TRUE]
    ELSE BestAvgOf(st, rs[k], cats, Touched(rs, rs[k], cats, st.races, prevseason))

WithVal(st, rtype) == [st EXCEPT !.val = st.row[rtype]]

\* Racer.best_avg(rtype) of racers[k]
best_avg(st, rs, k, rtype) == WithVal(BestAvgs(st, rs, k, {rtype}), rtype)

\* [best_avg(this) for this in RaceType] of racers[k]
CatVals(st, rs, k) == BestAvgs(st, rs, k, RaceTypeSet)

SumRow(row) == row[RaceType[1]] + row[RaceType[2]] + row[RaceType[3]]

MeanOfRow(st) == [st EXCEPT !.val = DecDivInt(SumRow(st.row), Len(RaceType))]

\* Racer.season_avg of racers[k]
season_avg(st, rs, k) == MeanOfRow(CatVals(st, rs, k))

\* a sort key of racers[k]: season_avg, or best_avg of one category
KeyEval(st, rs, k, what) ==
    IF what = "season_avg" THEN season_avg(st, rs, k) ELSE best_avg(st, rs, k, what)

PushKey(st) == [st EXCEPT !.out = Append(@, st.val)]

\* the keys of racers[1], ..., racers[n], evaluated in list order as
\* sorted() evaluates them
RECURSIVE EvalKeys(_, _, _, _)
EvalKeys(st, rs, n, what) ==
    IF n = 0 THEN st
    ELSE PushKey(KeyEval(EvalKeys(st, rs, n - 1, what), rs, n, what))

\* sorted(rs, key=...) from the keys: <<key, racer>> pairs
SortedPairs(rs, out) == SortByKey(AsSeq([i \in 1..Len(rs) |-> <<out[i], rs[i]>>]))

-----------------------------------------------------------------------------
(* timeeval *)

Minutes(time) == SubSeq(time, 1, IndexOf(time, ":") - 1)
SecondsOf(time) == SubSeq(time, IndexOf(time, ":") + 1, Len(time))

\* timeeval with None returned where lines 272 and 279 raise
LenientTimeeval(time) ==
    IF time = <<>> THEN NoneV
    ELSE IF IsDecimalLiteral(time) THEN DecV(DecimalOf(time))
    ELSE IF IndexOf(time, ":") # 0
         THEN IF IsDecimalLiteral(Minutes(time)) /\ IsDecimalLiteral(SecondsOf(time))
              THEN DecV(DecMul(Dec(60, 0), DecimalOf(Minutes(time)))
                            + DecimalOf(SecondsOf(time)))
              ELSE NoneV
    ELSE IF time = <<"D", "N", "F">> THEN Tag(DNF)
    ELSE IF time = <<"D", "N", "S">> THEN Tag(DNS)
    ELSE IF time = <<"D", "S", "Q">> THEN Tag(DSQ)
    ELSE NoneV

timeeval(time) ==
    IF time = <<>> THEN NoneV
    ELSE IF IsDecimalLiteral(time) THEN DecV(DecimalOf(time))
    ELSE IF IndexOf(time, ":") # 0
         THEN IF IsDecimalLiteral(Minutes(time)) /\ IsDecimalLiteral(SecondsOf(time))
              THEN DecV(DecMul(Dec(60, 0), DecimalOf(Minutes(time)))
                            + DecimalOf(SecondsOf(time)))
              ELSE Tag("InvalidOperation")
    ELSE IF time = <<"D", "N", "F">> THEN Tag(DNF)
    ELSE IF time = <<"D", "N", "S">> THEN Tag(DNS)
    ELSE IF time = <<"D", "S", "Q">> THEN Tag(DSQ)
    ELSE Tag("ValueError")

Raised(val) == val.tag \in {"ValueError", "InvalidOperation"}

-----------------------------------------------------------------------------
(* The script *)

DataZeroes == <<"d", "a", "t", "a", "-", "z", "e", "r", "o", "e", "s">>

Written(file) == DataZeroes \in DOMAIN file

\* lines 49-58
LoadPrevSeason ==
    /\ pc = "prevseason"
    /\ prevseason' = LoadPrevSeasonDict(prevfile)
    /\ lszeroes' = prevseason'[DataZeroes]
    /\ pc' = "csv"
    /\ UNCHANGED <<year, csv, prevfile, zeroes, races, racers, j, warmed, warm_ret,
                   post_ret, keys, seasonobj, outfile, last_written, racetype>>

\* one race of the header row, lines 289-293; field is item.split("#")
HeaderRace(field) ==
    IF Len(field) >= 3 THEN NewRace(field[2], field[1], StrV(field[3]))
    ELSE NewRace(field[2], field[1], NoneV)

\* lines 286-294: the first two items of the header are no races
HeaderRaces(row) == AsSeq([i \in 1..(Len(row) - 2) |-> HeaderRace(row[i + 2])])

\* lines 306-307
RowResults(row) ==
    AsSeq([i \in 1..(Len(row) - 2) |-> NewResult(timeeval(row[i + 2]), i)])

\* the Racer of a data row, lines 296-310; the name item is the pair that
\* partition("#") splits it into
RowRacer(row) ==
    [name |-> row[1][1],
     results |-> RowResults(row),
     gender |-> IF row[1][2] = "M" THEN "M" ELSE "F",
     inj |-> (row[2] = "inj")]

\* one turn of the reader loop, lines 284-311; after the last row the
\* script goes on to the warm-up loop
ReadRow ==
    /\ pc = "csv"
    /\ IF j = 0
       THEN /\ races' = HeaderRaces(csv.header)
            /\ racers' = racers
            /\ j' = j + 1
            /\ pc' = IF Len(csv.rows) = 0 THEN "rank" ELSE "csv"
       ELSE IF \E i \in 3..Len(csv.rows[j]) : Raised(timeeval(csv.rows[j][i]))
       THEN /\ pc' = "aborted"
            /\ UNCHANGED <<races, racers, j>>
       ELSE /\ racers' = Append(racers, RowRacer(csv.rows[j]))
            /\ races' = races
            /\ j' = j + 1
            /\ pc' = IF j = Len(csv.rows) THEN "warmup" ELSE "csv"
    /\ post_ret' = IF pc' \in {"warmup", "rank"} THEN NoSeen(racers') ELSE post_ret
    /\ UNCHANGED <<year, csv, prevfile, prevseason, lszeroes, zeroes, warmed,
                   warm_ret, keys, seasonobj, outfile, last_written, racetype>>

\* a turn of the warm-up loop that does not evaluate season_avg
SkippedWarmUp(k) ==
    /\ pc = "warmup"
    /\ k \in (1..Len(racers)) \ warmed
    /\ warmed' = warmed \cup {k}
    /\ pc' = IF warmed' = 1..Len(racers) THEN "rank" ELSE "warmup"
    /\ UNCHANGED <<year, csv, prevfile, prevseason, lszeroes, zeroes, races, racers,
                   j, warm_ret, post_ret, keys, seasonobj, outfile, last_written,
                   racetype>>

\* one turn of the warm-up loop, lines 313-314, for the racer at position k
WarmUp(k) ==
    /\ pc = "warmup"
    /\ k \in (1..Len(racers)) \ warmed
    /\ \E st \in {season_avg(StartEval(zeroes, races, post_ret), racers, k)} :
           IF st.err
           THEN /\ pc' = "aborted"
                /\ UNCHANGED <<zeroes, races, warmed, warm_ret>>
           ELSE /\ zeroes' = st.zeroes
                /\ races' = st.races
                /\ warmed' = warmed \cup {k}
                /\ warm_ret' = (racers[k].name :> st.row) @@ warm_ret
                /\ pc' = IF warmed' = 1..Len(racers) THEN "rank" ELSE "warmup"
    /\ UNCHANGED <<year, csv, prevfile, prevseason, lszeroes, racers, j, post_ret,
                   keys, seasonobj, outfile, last_written, racetype>>

\* line 316
Rank ==
    /\ pc = "rank"
    /\ \E st \in {EvalKeys(StartEval(zeroes, races, post_ret), racers, Len(racers),
                          "season_avg")} :
           IF st.err
           THEN /\ pc' = "aborted"
                /\ UNCHANGED <<racers, keys, zeroes, races, post_ret>>
           ELSE \E srt \in {SortedPairs(racers, st.out)} :
                    /\ racers' = Seconds(srt)
                    /\ keys' = Firsts(srt)
                    /\ zeroes' = st.zeroes
                    /\ races' = st.races
                    /\ post_ret' = st.seen
                    /\ pc' = "archive"
    /\ UNCHANGED <<year, csv, prevfile, prevseason, lszeroes, j, warmed, warm_ret,
                   seasonobj, outfile, last_written, racetype>>

\* line 321 for one racer: a later racer of the same name replaces an
\* earlier one
PutRow(st, name) == [st EXCEPT !.obj = (name :> st.row) @@ @]

\* the loop of lines 320-321 over racers[1..n]
RECURSIVE ArchiveEval(_, _, _)
ArchiveEval(st, rs, n) ==
    IF n = 0 THEN st
    ELSE PutRow(CatVals(ArchiveEval(st, rs, n - 1), rs, n), rs[n].name)

\* line 322
PutZeroes(st) == (DataZeroes :> st.zeroes) @@ st.obj

\* json.dump of line 324: every value is the str of line 321 or 322
Dump(obj) ==
    [key \in DOMAIN obj |-> [this \in RaceTypeSet |-> DecStr(obj[key][this])]]

\* lines 319-324
Archive ==
    /\ pc = "archive"
    /\ \E st \in {ArchiveEval(StartEval(zeroes, races, post_ret), racers, Len(racers))} :
           IF st.err
           THEN /\ pc' = "aborted"
                /\ UNCHANGED <<seasonobj, outfile, zeroes, races, post_ret, warm_ret>>
           ELSE /\ seasonobj' = PutZeroes(st)
                /\ outfile' = Dump(seasonobj')
                /\ zeroes' = st.zeroes
                /\ races' = st.races
                /\ post_ret' = st.seen
                /\ warm_ret' = EmptyMap
                /\ pc' = "tableF"
    /\ UNCHANGED <<year, csv, prevfile, prevseason, lszeroes, racers, j, warmed,
                   keys, last_written, racetype>>

\* line 334 for racers[n]
TableRow(st, rs, n, gender) ==
    IF rs[n].gender = gender THEN season_avg(CatVals(st, rs, n), rs, n) ELSE st

\* the loop of lines 332-334 over racers[1..n]
RECURSIVE TableEval(_, _, _, _)
TableEval(st, rs, n, gender) ==
    IF n = 0 THEN st
    ELSE TableRow(TableEval(st, rs, n - 1, gender), rs, n, gender)

\* seasontable(gender), lines 351 and 363
SeasonTable ==
    /\ pc \in {"tableF", "tableM"}
    /\ \E st \in {TableEval(StartEval(zeroes, races, post_ret), racers, Len(racers),
                           IF pc = "tableF" THEN "F" ELSE "M")} :
           IF st.err
           THEN /\ pc' = "aborted"
                /\ UNCHANGED <<zeroes, races, post_ret>>
           ELSE /\ zeroes' = st.zeroes
                /\ races' = st.races
                /\ post_ret' = st.seen
                /\ pc' = IF pc = "tableF" THEN "tableM" ELSE "detail"
    /\ UNCHANGED <<year, csv, prevfile, prevseason, lszeroes, racers, j, warmed,
                   warm_ret, keys, seasonobj, outfile, last_written, racetype>>

\* line 380: the penalty of every race of the category is read
DetailRaces(rs, rcs, what, ps) ==
    AsSeq([ri \in 1..Len(rcs) |->
        IF rcs[ri].rtype = what THEN penalty(rs, rcs[ri], ri, ps) ELSE rcs[ri]])

\* "%.2f" % a str, line 380
FormatError(rcs, what) ==
    \E ri \in 1..Len(rcs) : rcs[ri].rtype = what /\ rcs[ri].sto_penalty.tag = "str"

\* one turn of the category loop, lines 365-390: the sort by best_avg of the
\* category, then the penalty of every race of the category
Detail ==
    /\ pc = "detail"
    /\ \E st \in {EvalKeys(StartEval(zeroes, races, post_ret), racers, Len(racers),
                          RaceType[racetype])} :
           IF st.err \/ FormatError(st.races, RaceType[racetype])
           THEN /\ pc' = "aborted"
                /\ UNCHANGED <<racers, zeroes, races, post_ret, racetype>>
           ELSE \E rs \in {Seconds(SortedPairs(racers, st.out))} :
                    /\ racers' = rs
                    /\ zeroes' = st.zeroes
                    /\ races' = DetailRaces(rs, st.races, RaceType[racetype], prevseason)
                    /\ post_ret' = st.seen
                    /\ IF racetype = Len(RaceType)
                       THEN pc' = "done" /\ racetype' = racetype
                       ELSE pc' = "detail" /\ racetype' = racetype + 1
    /\ UNCHANGED <<year, csv, prevfile, prevseason, lszeroes, j, warmed, warm_ret,
                   keys, seasonobj, outfile, last_written>>

\* the script is run again for the next year: the archive this run wrote is
\* the one the next run loads
NextSeason ==
    /\ pc \in {"done", "aborted"}
    /\ Written(outfile)
    /\ year < MaxSeasons
    /\ year' = year + 1
    /\ prevfile' = outfile
    /\ last_written' = seasonobj
    /\ prevseason' = EmptyMap
    /\ lszeroes' = EmptyMap
    /\ zeroes' = InitZeroes
    /\ races' = <<>>
    /\ racers' = <<>>
    /\ j' = 0
    /\ pc' = "prevseason"
    /\ warmed' = {}
    /\ warm_ret' = EmptyMap
    /\ post_ret' = EmptyMap
    /\ keys' = <<>>
    /\ seasonobj' = EmptyMap
    /\ outfile' = EmptyMap
    /\ racetype' = 1
    /\ UNCHANGED csv

-----------------------------------------------------------------------------
(* Inputs *)

Name(i) == <<"r">> \o NatStr(i)
GenderOf(i) == IF i % 2 = 1 THEN "M" ELSE "F"

T6000 == <<"6", "0", ".", "0", "0">>
T6300 == <<"6", "3", ".", "0", "0">>
T0106 == <<"1", ":", "0", "6">>
TDNF == <<"D", "N", "F">>
TDNS == <<"D", "N", "S">>
TDSQ == <<"D", "S", "Q">>
TBad == <<"b", "a", "d">>
TBadMin == <<"x", ":", "3", "0">>

Kinds == {"both", "slow", "injured", "malformed"}

\* the injury item and the time items of row i of a table of three races
RowItems(i, kind) ==
    CASE kind = "both" -> <<"", T6000, T0106, TDNS>>
      [] kind = "slow" -> <<"", T6300, TDNF, T6000>>
      [] kind = "injured" -> <<"inj", <<>>, T6000, TDSQ>>
      [] kind = "malformed" -> <<"", T0106, IF i % 2 = 1 THEN TBad ELSE TBadMin, T6300>>

\* header rows; an item is its '#'-separated fields
Headers ==
    { << <<"name">>, <<"inj">>, <<"R1", "GS">>, <<"R2", "SC">>, <<"R3", "CL">> >>,
      << <<"name">>, <<"inj">>, <<"R1", "GS">>, <<"R2", "GS">>, <<"R3", "SC">> >>,
      << <<"name">>, <<"inj">>, <<"R1", "GS">>, <<"R2", "SC", <<"2", ".", "5">> >>,
         <<"R3", "CL">> >> }

Tables ==
    { [header |-> h,
       rows |-> [i \in 1..NumRacers |->
                    << <<Name(i), GenderOf(i)>> >> \o RowItems(i, kinds[i])]] :
         h \in Headers, kinds \in [1..NumRacers -> Kinds] }

\* last season's file: a category missing, a value above the scale factor,
\* a negative zero factor, a racer of this season absent
Archives ==
    { (Name(1) :> (("GS" :> <<"5", "0", ".", "2", "5">>) @@ ("SC" :> <<"0">>)))
        @@ (Name(2) :> (("GS" :> <<"0">>) @@ ("SC" :> <<"7", "0", "0">>)
                          @@ ("CL" :> <<"3", "0">>)))
        @@ (DataZeroes :> (("GS" :> <<"1", "0">>) @@ ("SC" :> <<"-", "5", ".", "5">>))) }

\* a table of BigRacers rows and two races, the second one with a penalty
\* override (when ovr) and no finisher; the times of the first race are a
\* permutation of the rows (step a), halved for ties (when tie), with some
\* rows not finishing (when dnf)
BigRank(i, a, tie) == IF tie THEN ((i * a) % 13) \div 2 ELSE (i * a) % 13

BigTime(i, a, tie, dnf) ==
    IF dnf /\ i % 6 = 0 THEN TDNF
    ELSE IF dnf /\ i % 7 = 0 THEN TDSQ
    ELSE IF dnf /\ i % 11 = 0 THEN <<>>
    ELSE DecStr(Dec(60 + BigRank(i, a, tie), 0))

BigHeader(ovr) ==
    << <<"name">>, <<"inj">>, <<"R1", "GS">>,
       IF ovr THEN <<"R2", "SC", <<"2", ".", "5">> >> ELSE <<"R2", "SC">> >>

BigTables ==
    { [header |-> BigHeader(ovr),
       rows |-> [i \in 1..BigRacers |->
                    << <<Name(i), GenderOf(i)>>, IF i % 5 = 0 THEN "inj" ELSE "",
                       BigTime(i, a, tie, dnf), IF i % 2 = 0 THEN TDNS ELSE <<>> >>]] :
         ovr \in BOOLEAN, a \in {1, 5}, tie \in BOOLEAN, dnf \in BOOLEAN }

\* last season's points of the rows of a big table: a permutation (step m),
\* divided by three for ties (when tie); row 9 is absent from the file
BigLs(i, m, tie) == IF tie THEN ((i * m) % 13) \div 3 ELSE (i * m) % 13

BigArchives ==
    { [key \in {Name(i) : i \in (1..BigRacers) \ {9}} \cup {DataZeroes} |->
          IF key = DataZeroes
          THEN ("GS" :> <<"4", ".", "5">>) @@ ("SC" :> <<"0">>) @@ ("CL" :> <<"0">>)
          ELSE ("GS" :> DecStr(Dec(10 * BigLs(CHOOSE i \in 1..BigRacers : Name(i) = key,
                                              m, tie), 0)))
                   @@ ("SC" :> <<"2", "0">>)] :
         m \in {1, 4}, tie \in BOOLEAN }

InitWith(tables, archives) ==
    /\ year = 1
    /\ csv \in tables
    /\ prevfile \in archives
    /\ prevseason = EmptyMap
    /\ lszeroes = EmptyMap
    /\ zeroes = InitZeroes
    /\ races = <<>>
    /\ racers = <<>>
    /\ j = 0
    /\ pc = "prevseason"
    /\ warmed = {}
    /\ warm_ret = EmptyMap
    /\ post_ret = EmptyMap
    /\ keys = <<>>
    /\ seasonobj = EmptyMap
    /\ outfile = EmptyMap
    /\ last_written = EmptyMap
    /\ racetype = 1

Init == InitWith(Tables, Archives)

\* the warm-up loop, its turns taken in any order of the roster
WarmUpAnyOrder == \E k \in 1..Len(racers) : WarmUp(k)

\* the warm-up loop as line 313 runs it: in list order
WarmUpInOrder == \E k \in 1..Len(racers) : k = Cardinality(warmed) + 1 /\ WarmUp(k)

Next ==
    \/ LoadPrevSeason
    \/ ReadRow
    \/ WarmUpAnyOrder
    \/ Rank
    \/ Archive
    \/ SeasonTable
    \/ Detail
    \/ NextSeason

Spec == Init /\ [][Next]_vars

\* the script as written, on the big tables: the warm-up loop visits the
\* roster in list order
InitSeq == InitWith(BigTables, BigArchives)

NextSeq ==
    \/ LoadPrevSeason
    \/ ReadRow
    \/ WarmUpInOrder
    \/ Rank
    \/ Archive
    \/ SeasonTable
    \/ Detail

SpecSeq == InitSeq /\ [][NextSeq]_vars

-----------------------------------------------------------------------------
(* Properties of the script *)

\* every row of the table is loaded and the warm-up loop has visited every
\* racer
WarmedUp == j = Len(csv.rows) + 1 /\ warmed = 1..Len(racers)

\* every row of the table is loaded
Loaded == j = Len(csv.rows) + 1 /\ Len(racers) = Len(csv.rows)

\* the racers of the table in row order, whatever the list has been sorted to
Roster == AsSeq([i \in 1..Len(csv.rows) |-> RowRacer(csv.rows[i])])

\* the races of the header, each one evaluated on the roster rs
RosterRaces(rs) ==
    AsSeq([ri \in 1..(Len(csv.header) - 2) |->
              AfterPoints(rs, HeaderRaces(csv.header)[ri], ri, prevseason)])

\* zeroes[c] is the least of ffactor(c) and the means of best_two(c) of rs
ZeroIsMinimum(rs, rcs) ==
    \A c \in RaceTypeSet :
        /\ zeroes[c] <= ffactor(c)
        /\ \A i \in 1..Len(rs) : zeroes[c] <= CatAvg(rs[i], c, rcs)
        /\ \/ zeroes[c] = ffactor(c)
           \/ \E i \in 1..Len(rs) : zeroes[c] = CatAvg(rs[i], c, rcs)

ZeroIsMinimumOn(rs) == ZeroIsMinimum(rs, RosterRaces(rs))

\* C1: once the warm-up loop has visited every racer, zeroes[c] is, for every
\* category c, the minimum of ffactor(c) and of the means of best_two(c) over
\* all racers.  The right-hand side is computed from the table and last
\* season's file alone, and the warm-up loop of Spec takes its turns in every
\* order, so the value is the same for every order.
C1_ZeroFactorIsMinimum == WarmedUp => ZeroIsMinimumOn(Roster)

\* C1: the warm-up is over, a zero factor is below its scale factor, and the
\* racer who set it is not the first one of the roster
C1_Witness ==
    /\ WarmedUp
    /\ pc = "rank"
    /\ \E c \in RaceTypeSet :
           /\ zeroes[c] < ffactor(c)
           /\ CatAvg(racers[1], c, races) > zeroes[c]

\* C2: in every state zeroes[c] <= ffactor(c); a run starts with
\* zeroes[c] = ffactor(c); no step of a run raises zeroes[c].
C2_ZeroNeverRaised ==
    [][\A c \in RaceTypeSet :
           /\ zeroes[c] <= ffactor(c)
           /\ zeroes'[c] <= ffactor(c)
           /\ (pc = "prevseason" => zeroes[c] = ffactor(c))
           /\ (year' = year => zeroes'[c] <= zeroes[c])]_vars

\* C2: a second run has ended with a zero factor below its scale factor
C2_Witness ==
    /\ year > 1
    /\ pc = "done"
    /\ \E c \in RaceTypeSet : zeroes[c] < ffactor(c)

\* what the file holds for the racers rs when every value is the mean of
\* best_two less shift[c]
ArchiveHolds(rs, rcs, shift) ==
    \A c \in RaceTypeSet :
        /\ outfile[DataZeroes][c] = DecStr(zeroes[c])
        /\ \A i \in 1..Len(rs) :
               outfile[rs[i].name][c] = DecStr(CatAvg(rs[i], c, rcs) - shift[c])

\* C3 as stated: the value written for a racer and a category is the mean of
\* best_two(c), and the value written under the zero-factor key is the final
\* zero factor.
C3_ArchiveIsCategoryAverage ==
    Written(outfile) =>
        ArchiveHolds(Roster, RosterRaces(Roster), [c \in RaceTypeSet |-> 0])

\* C3: the value written for a racer and a category is the mean of
\* best_two(c) less the final zero factor of c (what best_avg returns), and
\* the value written under the zero-factor key is the final zero factor.
C3_ArchiveIsZeroAdjusted ==
    Written(outfile) => ArchiveHolds(Roster, RosterRaces(Roster), zeroes)

\* C3: the archive is written and a final zero factor is not zero
C3_Witness ==
    /\ Written(outfile)
    /\ pc = "tableF"
    /\ \E c \in RaceTypeSet : zeroes[c] # 0 /\ zeroes[c] < ffactor(c)

\* C4: in the run that loads the file the run before wrote, Racer.ls[c] of
\* every racer is min(v, ffactor(c)) for the value v the run before handed to
\* str() for that racer and category, and lszeroes[c] is the same of the zero
\* factor written.
C4_ArchiveRoundTrip ==
    (year > 1 /\ pc # "prevseason") =>
        \A c \in RaceTypeSet :
            /\ lszeroes[c] = Min(last_written[DataZeroes][c], ffactor(c))
            /\ \A k \in 1..Len(racers) :
                   /\ racers[k].name \in DOMAIN last_written
                   /\ ls(racers[k], prevseason)[c]
                          = Min(last_written[racers[k].name][c], ffactor(c))

\* C4: a second run has loaded, for its racers, a value with a fraction and
\* a value above the scale factor, and a negative zero factor
C4_Witness ==
    /\ year > 1
    /\ pc = "rank"
    /\ \E k \in 1..Len(racers) : \E c \in RaceTypeSet :
           /\ last_written[racers[k].name][c] % Unit # 0
           /\ ls(racers[k], prevseason)[c] = last_written[racers[k].name][c]
    /\ \E k \in 1..Len(racers) : \E c \in RaceTypeSet :
           /\ last_written[racers[k].name][c] > ffactor(c)
           /\ ls(racers[k], prevseason)[c] = ffactor(c)
    /\ \E c \in RaceTypeSet :
           last_written[DataZeroes][c] < 0 /\ lszeroes[c] < 0

\* the season average of racer r with the zero factors of this state
FinalSeasonAvg(r) ==
    DecDivInt((CatAvg(r, RaceType[1], races) - zeroes[RaceType[1]])
                  + (CatAvg(r, RaceType[2], races) - zeroes[RaceType[2]])
                  + (CatAvg(r, RaceType[3], races) - zeroes[RaceType[3]]),
              Len(RaceType))

\* C5: the list the sort of line 316 produced is ascending by final season
\* average (the mean over the categories of the mean of best_two less the
\* final zero factor), and the keys the sort used are these final values.
C5_RankedByFinalAverage ==
    pc \in {"archive", "tableF", "tableM"} =>
        /\ Len(keys) = Len(racers)
        /\ \A a \in 1..Len(racers) : keys[a] = FinalSeasonAvg(racers[a])
        /\ \A a \in 1..Len(racers) : \A b \in a..Len(racers) : keys[a] <= keys[b]

\* C5: the sort has moved the first racer of the table, the keys differ, and
\* a value the warm-up saw was not final
C5_Witness ==
    /\ pc = "archive"
    /\ Len(racers) = NumRacers
    /\ keys[1] < keys[Len(keys)]
    /\ racers[1].name # Name(1)
    /\ \E k \in 1..Len(racers) : \E c \in RaceTypeSet :
           warm_ret[racers[k].name][c] # CatAvg(racers[k], c, races) - zeroes[c]

\* two is the two smallest elements, in order, of the list m
TwoSmallestOf(two, m) ==
    /\ Len(two) = 2
    /\ two[1] <= two[2]
    /\ \E p \in 1..Len(m) : \E q \in (1..Len(m)) \ {p} :
           /\ m[p] = two[1]
           /\ m[q] = two[2]
           /\ \A o \in (1..Len(m)) \ {p, q} : two[2] <= m[o]

\* best_two(c) of r returns the two smallest of the points of r's finished
\* results in c and two copies of last_penalized(c)
BestTwoAsStated(r, c, rcs) ==
    /\ TwoSmallestOf(best_two(r, c, rcs, prevseason, lszeroes),
                     PointsOf(Counted(r, c, rcs), rcs)
                         \o Twice(last_penalized(r, c, prevseason, lszeroes)))
    /\ (Counted(r, c, rcs) = <<>> =>
            best_two(r, c, rcs, prevseason, lszeroes)
                = Twice(last_penalized(r, c, prevseason, lszeroes)))

\* C6 as stated: for every racer of the loaded table and every category,
\* best_two returns (no exception is raised) exactly two values, the two
\* smallest of the points of the racer's finished results in the category
\* and two copies of last_penalized; both are last_penalized when the racer
\* has no finished result in the category.
C6_BestTwoReturnsTwoSmallest ==
    Loaded =>
        \A k \in 1..Len(racers) : \A c \in RaceTypeSet :
            /\ ~TypeError(racers[k], c, races)
            /\ BestTwoAsStated(racers[k], c,
                               Touched(racers, racers[k], {c}, races, prevseason))

\* the racers of rs whose result in race ri is started, finished, finished
\* with place <= 10
Starters(rs, ri) == {k \in 1..Len(rs) : started(rs[k].results[ri])}
Finishers(rs, ri) == {k \in 1..Len(rs) : finished(rs[k].results[ri])}
TopTen(rs, ri) ==
    {k \in Finishers(rs, ri) : place(rs, rs[k].results[ri]).v <= 10}

\* last season's points in category c, by position in rs
CarriedOf(rs, c) == AsSeq([k \in 1..Len(rs) |-> ls(rs[k], prevseason)[c]])

\* the raw points in race ri, by position in rs
RawPointsOf(rs, race, ri) ==
    AsSeq([k \in 1..Len(rs) |->
              IF finished(rs[k].results[ri])
              THEN raw_points(rs[k].results[ri], race.stored_best.v, race.rtype)
              ELSE 0])

RECURSIVE SumOver(_, _)
SumOver(f, S) ==
    IF S = {} THEN 0
    ELSE f[CHOOSE x \in S : TRUE] + SumOver(f, S \ {CHOOSE x \in S : TRUE})

\* S is five members of set with the lowest values of f (all of set when it
\* has fewer than five)
FiveLowest(S, set, f) ==
    /\ Cardinality(S) = Min(5, Cardinality(set))
    /\ \A a \in S : \A b \in set \ S : f[a] <= f[b]

\* the stored penalty, B and C of race are (A + B - C)/10, B and C as stated
PenaltyAsStated(race, starters, topten, carried, raw) ==
    \E SB \in SUBSET topten :
        /\ FiveLowest(SB, topten, carried)
        /\ race.sto_B = DecV(SumOver(carried, SB))
        /\ race.sto_C = DecV(SumOver(raw, SB))
        /\ \E SA \in SUBSET starters :
               /\ FiveLowest(SA, starters, carried)
               /\ race.sto_penalty
                      = DecV(DecDivInt(SumOver(carried, SA) + race.sto_B.v
                                           - race.sto_C.v, 10))

\* C7: the penalty of a race without an override, once computed, is
\* (A + B - C)/10, A the sum of the five lowest last-season points (in the
\* race's category) of the racers whose result in the race is started, B and
\* C the sums of the last-season points and of the raw points of five
\* finishers with the lowest last-season points among those with place <= 10;
\* the penalty of a race with an override is the override as the header
\* gives it, and its B and C are never computed.
C7_PenaltyFormula ==
    \A ri \in 1..Len(races) :
        IF Len(csv.header[ri + 2]) >= 3
        THEN /\ races[ri].sto_penalty = StrV(csv.header[ri + 2][3])
             /\ races[ri].sto_B = NoneV
             /\ races[ri].sto_C = NoneV
        ELSE \/ races[ri].sto_penalty = NoneV
             \/ PenaltyAsStated(races[ri], Starters(racers, ri), TopTen(racers, ri),
                                CarriedOf(racers, races[ri].rtype),
                                RawPointsOf(racers, races[ri], ri))

\* C7: a penalty has been computed for a race with more than five starters
\* and a finisher behind place 10 whose last-season points are lower than
\* those of a finisher within the first ten
C7_Witness ==
    \E ri \in 1..Len(races) :
        /\ races[ri].sto_penalty.tag = "Decimal"
        /\ Cardinality(Starters(racers, ri)) > 5
        /\ \E a \in Finishers(racers, ri) \ TopTen(racers, ri) :
           \E b \in TopTen(racers, ri) :
               ls(racers[a], prevseason)[races[ri].rtype]
                   < ls(racers[b], prevseason)[races[ri].rtype]

\* C8 as stated: the finishers of a race receive the distinct places 1..n,
\* n the number of finishers; a result that is not finished has no place.
C8_PlacesAreDistinct ==
    Loaded =>
        \A ri \in 1..Len(races) :
            /\ {place(racers, racers[k].results[ri]).v : k \in Finishers(racers, ri)}
                   = 1..Cardinality(Finishers(racers, ri))
            /\ \A k \in (1..Len(racers)) \ Finishers(racers, ri) :
                   place(racers, racers[k].results[ri]) = NoneV

\* C8: the place of a finished result is one more than the number of
\* finishers of the same race with a strictly smaller time, so finishers of
\* equal time share a place; a result that is not finished has no place.
C8_PlaceCountsStrictlyFaster ==
    Loaded =>
        \A ri \in 1..Len(races) : \A k \in 1..Len(racers) :
            IF k \in Finishers(racers, ri)
            THEN place(racers, racers[k].results[ri]).v
                     = 1 + Cardinality({o \in Finishers(racers, ri) :
                               racers[o].results[ri].xtime.v
                                   < racers[k].results[ri].xtime.v})
            ELSE place(racers, racers[k].results[ri]) = NoneV

\* C8: the penalty of a race has been computed in which two finishers have
\* the same time and a third one is slower
C8_Witness ==
    /\ Loaded
    /\ \E ri \in 1..Len(races) :
           /\ races[ri].sto_penalty.tag = "Decimal"
           /\ \E a \in Finishers(racers, ri) : \E b \in Finishers(racers, ri) \ {a} :
                  /\ racers[a].results[ri].xtime = racers[b].results[ri].xtime
                  /\ \E o \in Finishers(racers, ri) :
                         racers[o].results[ri].xtime.v > racers[a].results[ri].xtime.v

\* a time item timeeval has a value for: empty, a decimal, minutes:seconds,
\* or one of DNF, DNS, DSQ
WellFormed(time) ==
    \/ time = <<>>
    \/ IsDecimalLiteral(time)
    \/ \E i \in 1..Len(time) :
           /\ time[i] = ":"
           /\ IsDecimalLiteral(SubSeq(time, 1, i - 1))
           /\ IsDecimalLiteral(SubSeq(time, i + 1, Len(time)))
    \/ time \in {TDNF, TDNS, TDSQ}

HasMalformed ==
    \E r \in 1..Len(csv.rows) : \E i \in 3..Len(csv.rows[r]) :
        ~WellFormed(csv.rows[r][i])

\* C9: with a malformed time item in the table the run never gets past the
\* reader loop and this season's file is never written; the file is written
\* only when every row is loaded, the warm-up loop has visited every racer
\* and the sort of line 316 is done.
C9_MalformedTimeAborts ==
    /\ HasMalformed =>
           /\ ~Written(outfile)
           /\ pc \in {"prevseason", "csv", "aborted"}
           /\ warmed = {}
    /\ Written(outfile) =>
           /\ Loaded
           /\ WarmedUp
           /\ Len(keys) = Len(racers)

\* C9: the run is aborted in the reader loop on a malformed item after a row
\* was loaded, and nothing is written
C9_Witness ==
    /\ HasMalformed
    /\ pc = "aborted"
    /\ j > 1
    /\ ~Written(outfile)

\* C10: once the warm-up loop has visited every racer no step of the run
\* changes zeroes, and all values best_avg returns for one racer and one
\* category after the warm-up are equal.
C10_ZeroesFinalAfterWarmUp ==
    /\ [](\A n \in DOMAIN post_ret : \A c \in RaceTypeSet :
              Cardinality(post_ret[n][c]) <= 1)
    /\ [][(WarmedUp /\ year' = year) => zeroes' = zeroes]_vars

\* C10: the sort of line 316 is done, and the value best_avg returned in the
\* warm-up for some racer and category is not the one it returned in the sort
C10_Witness ==
    /\ pc = "archive"
    /\ \E n \in DOMAIN post_ret : \E c \in RaceTypeSet :
           /\ post_ret[n][c] # {}
           /\ warm_ret[n][c] \notin post_ret[n][c]

====
